---- MODULE Spec2Model ----
(***************************************************************************)
(* A model of the Ninja School backend (src/index.js, the route set of     *)
(* lines 172-463): an Express application over five MongoDB collections    *)
(* and a payment provider.  Each route handler is one action; the store's  *)
(* application of the un-awaited seat update of PUT /classes/:classId is   *)
(* an action of its own, because the handler answers before the store has  *)
(* applied it.  Lines 1-171 are an earlier copy of the same routes.  GET /  *)
(* and POST /jwt touch neither the store nor the provider: the credentials *)
(* that POST /jwt signs reach the routes as the inputs Creds.              *)
(*                                                                         *)
(* Values.  An ObjectId is a natural number.  A string that a client sends *)
(* where an id is expected is a pair <<kind, n>>: <<"hex", n>> is the      *)
(* 24-digit hexadecimal spelling of ObjectId n, <<"bad", n>> is a string   *)
(* that is no such spelling, <<"null", 0>> is an absent field.             *)
(***************************************************************************)
EXTENDS Integers, Sequences, FiniteSets, TLC

VARIABLES
    users,            \* collection "users": sequence of documents, storage order
    classes,          \* collection "classes"
    instructors,      \* collection "instructors"
    bookedClasses,    \* collection "bookedClasses"
    payments,         \* collection "payments"
    intents,          \* payment intents created at the payment provider (amounts)
    pendingIncs,      \* seat updates issued to the store and not yet applied: ObjectId -> count
    issuedIncs,       \* history: seat updates issued so far, per target ObjectId
    classes0,         \* history: the classes collection of the initial state
    bookingsInserted, \* number of documents the driver has given an _id in bookedClasses
    request,          \* the request handled last
    response          \* the response sent for it

vars == <<users, classes, instructors, bookedClasses, payments, intents,
          pendingIncs, issuedIncs, classes0, bookingsInserted, request, response>>

----------------------------------------------------------------------------
(* Bounds of the model *)

MaxOps == 2
MaxClasses == 7
MaxInstructors == 2
MaxBookingId == 2

(* Program constants *)

PopularLimit == 6
CentsPerUnit == 100

----------------------------------------------------------------------------
(* Inputs *)

Emails == {"s1", "s2"}
ServerEmails == {"s1"}

Hex(n) == <<"hex", n>>
BadIdString == <<"bad", 0>>
NullId == <<"null", 0>>

\* ObjectIds of the classes stored in the server specification, and one that
\* is stored nowhere.
StoredClassOids == {1, 2}
ClassStatus(oid) == IF oid = 2 THEN "pending" ELSE "approved"
MissingClassOid == Cardinality(StoredClassOids) + 1
ClassOids == 1..MissingClassOid

\* What a client may send as :classId / :bookedClassId / body.classId.
ClassIdParams == {Hex(o) : o \in ClassOids} \cup {BadIdString}
ClassIdFields == {Hex(1), Hex(MissingClassOid), BadIdString, NullId}
ServerClassIdFields == {Hex(1)}

\* (totalSeats, availableSeats) of the classes of the view specifications; the
\* last is a class whose seats were decremented once more than it had.
SeatChoices == {<<1, 1>>, <<1, 0>>, <<2, 0>>, <<1, -1>>}

\* classIds of an instructor document.
ClassIdLists ==
    {<<>>, <<Hex(1)>>, <<Hex(1), Hex(2)>>, <<Hex(MissingClassOid)>>, <<BadIdString>>}

\* The driver's fresh _id for the k-th document inserted in bookedClasses and
\* in payments: distinct from each other and from every class id.
BookingOid(k) == MissingClassOid + k
PaymentOid(k) == MissingClassOid + MaxOps + k
BookingIdParams == {Hex(BookingOid(k)) : k \in 1..MaxBookingId} \cup {BadIdString}

\* Credentials a request may carry, by what jwt.verify makes of them.
Creds == {"missing", "invalid", "expired", "valid"}

\* req.body.price of POST /create-payment-intent: a decimal string, in tenths
\* (15 is "1.5"), or a string that is no number.
PriceInputs == {<<"dec", 5>>, <<"dec", 15>>, <<"nan", 0>>}

SortFlags == {"", "true"}

----------------------------------------------------------------------------
(* Helpers of the driver and the store *)

Min(a, b) == IF a < b THEN a ELSE b

RECURSIVE SumSeq(_)
SumSeq(s) == IF s = <<>> THEN 0 ELSE Head(s) + SumSeq(Tail(s))

RECURSIVE Concat(_)
Concat(ss) == IF ss = <<>> THEN <<>> ELSE Head(ss) \o Concat(Tail(ss))

\* new ObjectId(string): defined on the 24-digit hexadecimal strings, throws
\* BSONError on any other.
ObjectIdValid(s) == s[1] = "hex"
ObjectId(s) == s[2]

\* $toObjectId: null for an absent value, the ObjectId of a 24-digit
\* hexadecimal string, a conversion error (failing the whole aggregation) on
\* any other string.  -1 stands for null: no document has that _id.
ToObjectIdFails(s) == s[1] = "bad"
ToObjectId(s) == IF s[1] = "hex" THEN s[2] ELSE -1

\* $lookup ... $match $expr $eq ["$_id", "$$classId"]: the documents of the
\* classes collection whose _id equals the converted id.
LookupClasses(coll, s) ==
    LET oid == ToObjectId(s)
        Matches(c) == c._id = oid
    IN  SelectSeq(coll, Matches)

SortAsc(docs, keys) ==
    LET n == Len(docs)
        Rank(i) == 1 + Cardinality({j \in 1..n :
                          \/ keys[j] < keys[i]
                          \/ keys[j] = keys[i] /\ j < i})
    IN  [p \in 1..n |-> docs[CHOOSE i \in 1..n : Rank(i) = p]]

\* $sort by a key, descending (-1).  keys[i] is the key of docs[i]; among
\* equal keys the documents keep their input order.
SortDesc(docs, keys) ==
    LET n == Len(docs)
        Rank(i) == 1 + Cardinality({j \in 1..n :
                          \/ keys[j] > keys[i]
                          \/ keys[j] = keys[i] /\ j < i})
    IN  [p \in 1..n |-> docs[CHOOSE i \in 1..n : Rank(i) = p]]

\* $limit
Limit(docs, n) == SubSeq(docs, 1, Min(n, Len(docs)))

\* updateOne({_id: oid}, {$inc: {availableSeats: delta}}): one atomic step of
\* the store on the document with that _id, if there is one.
UpdateOneSet(coll, oid, delta) ==
    [i \in 1..Len(coll) |->
        IF coll[i]._id = oid
        THEN [coll[i] EXCEPT !.availableSeats = delta]
        ELSE coll[i]]

UpdateOneInc(coll, oid, delta) ==
    [i \in 1..Len(coll) |->
        IF coll[i]._id = oid
        THEN [coll[i] EXCEPT !.availableSeats = @ + delta]
        ELSE coll[i]]

\* deleteOne({_id: oid}): the collection without the document of that _id,
\* and the deletedCount.
DeleteOne(coll, oid) ==
    LET Keep(d) == d._id # oid
    IN  SelectSeq(coll, Keep)

DeletedCount(coll, oid) == Len(coll) - Len(DeleteOne(coll, oid))

----------------------------------------------------------------------------
(* The aggregation pipelines *)

Enrolled(c) == c.totalSeats - c.availableSeats

\* GET /classes/popular: $addFields enrolledStudents, $sort -1, $limit 6.
AddEnrolled(coll) ==
    [i \in 1..Len(coll) |->
        [_id |-> coll[i]._id, status |-> coll[i].status,
         totalSeats |-> coll[i].totalSeats,
         availableSeats |-> coll[i].availableSeats,
         enrolledStudents |-> Enrolled(coll[i])]]

EnrolledKeys(docs) == [i \in 1..Len(docs) |-> docs[i].enrolledStudents]

PopularClassesPipeline(coll) ==
    LET docs == AddEnrolled(coll)
    IN  Limit(SortDesc(docs, EnrolledKeys(docs)), PopularLimit)

\* GET /instructors/popular.
\* $unwind "$classIds": one document per element of classIds; an instructor
\* whose classIds is empty yields none.
Unwind(coll) ==
    Concat([i \in 1..Len(coll) |->
              [k \in 1..Len(coll[i].classIds) |->
                  [_id |-> coll[i]._id, classIds |-> coll[i].classIds[k]]]])

\* $toObjectId fails the aggregation when some unwound classIds is no id.
UnwoundFails(docs) == \E i \in 1..Len(docs) : ToObjectIdFails(docs[i].classIds)

\* $lookup as "classes", then $addFields totalStudents = $sum of $map.
StudentsOf(cls) == SumSeq([i \in 1..Len(cls) |-> Enrolled(cls[i])])

AddTotalStudents(docs, coll) ==
    [i \in 1..Len(docs) |->
        [_id |-> docs[i]._id, classIds |-> docs[i].classIds,
         totalStudents |-> StudentsOf(LookupClasses(coll, docs[i].classIds))]]

\* $group by _id: the groups in the order their first document arrives,
\* classIds pushed, totalStudents summed.
RECURSIVE GroupIds(_)
GroupIds(docs) ==
    IF docs = <<>> THEN <<>>
    ELSE LET first == Head(docs)._id
             Other(d) == d._id # first
         IN  <<first>> \o GroupIds(SelectSeq(Tail(docs), Other))

GroupById(docs) ==
    LET ids == GroupIds(docs)
    IN  [g \in 1..Len(ids) |->
            LET Mine(d) == d._id = ids[g]
                mine == SelectSeq(docs, Mine)
            IN  [_id |-> ids[g],
                 classIds |-> [k \in 1..Len(mine) |-> mine[k].classIds],
                 totalStudents |-> SumSeq([k \in 1..Len(mine) |-> mine[k].totalStudents])]]

TotalStudentsKeys(docs) == [i \in 1..Len(docs) |-> docs[i].totalStudents]

PopularInstructorsPipeline(insts, coll) ==
    LET grouped == GroupById(AddTotalStudents(Unwind(insts), coll))
    IN  Limit(SortDesc(grouped, TotalStudentsKeys(grouped)), PopularLimit)

\* The $match / $lookup "classInfo" join of GET /bookedClasses/:studentEmail.
BookedOf(coll, email) ==
    LET Mine(d) == d.studentEmail = email
    IN  SelectSeq(coll, Mine)

\* The same join of GET /payments/:userEmail.
PaymentsOf(coll, email) ==
    LET Mine(d) == d.userEmail = email
    IN  SelectSeq(coll, Mine)

JoinFails(docs) == \E i \in 1..Len(docs) : ToObjectIdFails(docs[i].classId)

BookedWithClassInfo(docs, coll) ==
    [i \in 1..Len(docs) |->
        [_id |-> docs[i]._id, studentEmail |-> docs[i].studentEmail,
         classId |-> docs[i].classId,
         classInfo |-> LookupClasses(coll, docs[i].classId)]]

PaymentsWithClassInfo(docs, coll) ==
    [i \in 1..Len(docs) |->
        [_id |-> docs[i]._id, userEmail |-> docs[i].userEmail,
         classId |-> docs[i].classId,
         classInfo |-> LookupClasses(coll, docs[i].classId)]]

IdKeys(docs) == [i \in 1..Len(docs) |-> docs[i]._id]

\* let sort = {}; if (req.query.sort === "true") sort._id = -1
SortSpec(flag) == IF flag = "true" THEN "idDescending" ELSE "empty"

\* { $sort: sort }: the store refuses a $sort stage without a sort key
\* ("$sort stage must have at least one sort key").
SortStageFails(spec) == spec = "empty"

SortStage(docs, spec) == IF spec = "idDescending" THEN SortDesc(docs, IdKeys(docs)) ELSE docs

----------------------------------------------------------------------------
(* Requests, responses, the token verifier *)

Req(op, cred, id, email, flag) ==
    [op |-> op, cred |-> cred, id |-> id, email |-> email, flag |-> flag]

NoRequest == Req("none", "missing", NullId, "", "")

\* status: "ok" a result was sent; "Unauthorized" the verifier refused;
\* "error" the handler threw or its promise rejected, so no result was sent.
\* body names what was sent; docs and count hold it.
Resp(status, body, docs, count) ==
    [status |-> status, body |-> body, docs |-> docs, count |-> count]

NoResponse == Resp("none", "none", <<>>, -1)
Rejected == Resp("Unauthorized", "none", <<>>, -1)
Thrown == Resp("error", "none", <<>>, -1)
Docs(docs) == Resp("ok", "docs", docs, -1)
InsertResult(oid) == Resp("ok", "insertResult", <<>>, oid)

\* The verifier accepts a present, well-formed, correctly signed, unexpired
\* token and refuses every other.
verifyJWT(cred) == cred = "valid"

\* The routes registered with verifyJWT before their handler.
AuthRoutesWithoutSeat ==
    {"createPaymentIntent", "deleteBookedClass", "postPayment", "getPayments"}

AuthRoutes ==
    {"createPaymentIntent", "deleteBookedClass", "putClass", "postPayment",
     "getPayments"}

\* Express runs the handler of a route only if every middleware before it
\* called next().
HandlerRuns(op, cred) == op \in AuthRoutes => verifyJWT(cred)

----------------------------------------------------------------------------
(* The bound on the run: requests that insert a document, create an intent *)
(* or issue a seat update.                                                 *)

IssuedTotal == SumSeq([i \in 1..MissingClassOid |-> issuedIncs[i]])

Mutations ==
    bookingsInserted + Len(payments) + Len(users) + Len(intents) + IssuedTotal

MayMutate == Mutations < MaxOps

----------------------------------------------------------------------------
(* Route handlers *)

\* POST /user
PostUser(email) ==
    /\ MayMutate
    /\ users' = Append(users, [email |-> email])
    /\ request' = Req("postUser", "missing", NullId, email, "")
    /\ response' = InsertResult(Len(users) + 1)
    /\ UNCHANGED <<classes, instructors, bookedClasses, payments, intents,
                   pendingIncs, issuedIncs, classes0, bookingsInserted>>

\* GET /users/:userEmail
GetUser(email) ==
    LET Mine(u) == u.email = email
        found == SelectSeq(users, Mine)
    IN  /\ request' = Req("getUser", "missing", NullId, email, "")
        /\ response' = Docs(Limit(found, 1))
        /\ UNCHANGED <<users, classes, instructors, bookedClasses, payments,
                       intents, pendingIncs, issuedIncs, classes0, bookingsInserted>>

\* GET /classes
GetClasses ==
    LET Approved(c) == c.status = "approved"
    IN  /\ request' = Req("getClasses", "missing", NullId, "", "")
        /\ response' = Docs(SelectSeq(classes, Approved))
        /\ UNCHANGED <<users, classes, instructors, bookedClasses, payments,
                       intents, pendingIncs, issuedIncs, classes0, bookingsInserted>>

\* GET /bookedClasses/:studentEmail
GetBookedClasses(email) ==
    LET mine == BookedOf(bookedClasses, email)
    IN  /\ request' = Req("getBookedClasses", "missing", NullId, email, "")
        /\ response' = IF JoinFails(mine) THEN Thrown
                       ELSE Docs(BookedWithClassInfo(mine, classes))
        /\ UNCHANGED <<users, classes, instructors, bookedClasses, payments,
                       intents, pendingIncs, issuedIncs, classes0, bookingsInserted>>

\* DELETE /bookedClasses/:bookedClassId
\* if (result.deletedCount === 1) res.send(result) else res.send({error: ...})
DeleteResponseAlwaysResult(deletedCount) ==
    Resp("ok", "deleteResult", <<>>, deletedCount)

DeleteResponse(deletedCount) ==
    IF deletedCount = 1
    THEN Resp("ok", "deleteResult", <<>>, deletedCount)
    ELSE Resp("ok", "errorNotFound", <<>>, -1)

DeleteBookedClassRefund(cred, id) ==
    /\ request' = Req("deleteBookedClass", cred, id, "", "")
    /\ IF ~HandlerRuns("deleteBookedClass", cred)
       THEN response' = Rejected /\ UNCHANGED <<bookedClasses, classes>>
       ELSE IF ~ObjectIdValid(id)
       THEN response' = Thrown /\ UNCHANGED <<bookedClasses, classes>>
       ELSE /\ bookedClasses' = DeleteOne(bookedClasses, ObjectId(id))
            /\ response' = DeleteResponse(DeletedCount(bookedClasses, ObjectId(id)))
            /\ LET Hit(d) == d._id = ObjectId(id)
                   hit == SelectSeq(bookedClasses, Hit)
               IN  classes' = IF hit = <<>> THEN classes
                              ELSE UpdateOneInc(classes, ToObjectId(hit[1].classId), 1)
    /\ UNCHANGED <<users, instructors, payments, intents,
                   pendingIncs, issuedIncs, classes0, bookingsInserted>>

DeleteBookedClass(cred, id) ==
    /\ request' = Req("deleteBookedClass", cred, id, "", "")
    /\ IF ~HandlerRuns("deleteBookedClass", cred)
       THEN response' = Rejected /\ UNCHANGED bookedClasses
       ELSE IF ~ObjectIdValid(id)
       THEN response' = Thrown /\ UNCHANGED bookedClasses
       ELSE /\ bookedClasses' = DeleteOne(bookedClasses, ObjectId(id))
            /\ response' = DeleteResponse(DeletedCount(bookedClasses, ObjectId(id)))
    /\ UNCHANGED <<users, classes, instructors, payments, intents,
                   pendingIncs, issuedIncs, classes0, bookingsInserted>>

\* GET /classes/popular
GetPopularClasses ==
    /\ request' = Req("getPopularClasses", "missing", NullId, "", "")
    /\ response' = Docs(PopularClassesPipeline(classes))
    /\ UNCHANGED <<users, classes, instructors, bookedClasses, payments,
                   intents, pendingIncs, issuedIncs, classes0, bookingsInserted>>

\* POST /bookedClass
PostBookedClass(email, classId) ==
    /\ MayMutate
    /\ bookingsInserted' = bookingsInserted + 1
    /\ bookedClasses' = Append(bookedClasses,
          [_id |-> BookingOid(bookingsInserted + 1), studentEmail |-> email,
           classId |-> classId])
    /\ request' = Req("postBookedClass", "missing", classId, email, "")
    /\ response' = InsertResult(BookingOid(bookingsInserted + 1))
    /\ UNCHANGED <<users, classes, instructors, payments, intents,
                   pendingIncs, issuedIncs, classes0>>

\* PUT /classes/:classId.  The handler is not async and does not await
\* updateOne: it sends the pending promise, which serialises as {}, and the
\* store applies the update later (StoreApplyInc).
PutClass(cred, id) ==
    /\ request' = Req("putClass", cred, id, "", "")
    /\ IF ~HandlerRuns("putClass", cred)
       THEN response' = Rejected /\ UNCHANGED <<pendingIncs, issuedIncs>>
       ELSE IF ~ObjectIdValid(id)
       THEN response' = Thrown /\ UNCHANGED <<pendingIncs, issuedIncs>>
       ELSE /\ MayMutate
            /\ pendingIncs' = [pendingIncs EXCEPT ![ObjectId(id)] = @ + 1]
            /\ issuedIncs' = [issuedIncs EXCEPT ![ObjectId(id)] = @ + 1]
            /\ response' = Resp("ok", "emptyObject", <<>>, -1)
    /\ UNCHANGED <<users, classes, instructors, bookedClasses, payments,
                   intents, classes0, bookingsInserted>>

\* The store applies one issued updateOne(..., {$inc: {availableSeats: -1}}).
StoreApplyInc(oid) ==
    /\ pendingIncs[oid] > 0
    /\ pendingIncs' = [pendingIncs EXCEPT ![oid] = @ - 1]
    /\ classes' = UpdateOneInc(classes, oid, -1)
    /\ UNCHANGED <<users, instructors, bookedClasses, payments, intents,
                   issuedIncs, classes0, bookingsInserted, request, response>>

\* GET /instructors
GetInstructors ==
    /\ request' = Req("getInstructors", "missing", NullId, "", "")
    /\ response' = Docs(instructors)
    /\ UNCHANGED <<users, classes, instructors, bookedClasses, payments,
                   intents, pendingIncs, issuedIncs, classes0, bookingsInserted>>

\* GET /instructors/popular: a failed aggregation is caught and answered
\* with status 500.
GetPopularInstructors ==
    /\ request' = Req("getPopularInstructors", "missing", NullId, "", "")
    /\ response' = IF UnwoundFails(Unwind(instructors))
                   THEN Resp("error", "internalServerError", <<>>, -1)
                   ELSE Docs(PopularInstructorsPipeline(instructors, classes))
    /\ UNCHANGED <<users, classes, instructors, bookedClasses, payments,
                   intents, pendingIncs, issuedIncs, classes0, bookingsInserted>>

\* POST /create-payment-intent: amount = parseInt(price) * 100.  parseInt
\* keeps the integer part of a decimal string and gives NaN for a string that
\* is no number; the provider refuses an amount that is no positive integer.
ParseIntFails(price) == price[1] = "nan"
ParseInt(price) == price[2] \div 10
Amount(price) == ParseInt(price) * CentsPerUnit

CreatePaymentIntent(cred, price) ==
    /\ request' = Req("createPaymentIntent", cred, price, "", "")
    /\ IF ~HandlerRuns("createPaymentIntent", cred)
       THEN response' = Rejected /\ UNCHANGED intents
       ELSE IF ParseIntFails(price) \/ Amount(price) <= 0
       THEN response' = Thrown /\ UNCHANGED intents
       ELSE /\ MayMutate
            /\ intents' = Append(intents, Amount(price))
            /\ response' = Resp("ok", "clientSecret", <<>>, Len(intents) + 1)
    /\ UNCHANGED <<users, classes, instructors, bookedClasses, payments,
                   pendingIncs, issuedIncs, classes0, bookingsInserted>>

\* POST /payment
PostPayment(cred, email, classId) ==
    /\ request' = Req("postPayment", cred, classId, email, "")
    /\ IF ~HandlerRuns("postPayment", cred)
       THEN response' = Rejected /\ UNCHANGED payments
       ELSE /\ MayMutate
            /\ payments' = Append(payments,
                  [_id |-> PaymentOid(Len(payments) + 1), userEmail |-> email,
                   classId |-> classId])
            /\ response' = InsertResult(PaymentOid(Len(payments) + 1))
    /\ UNCHANGED <<users, classes, instructors, bookedClasses, intents,
                   pendingIncs, issuedIncs, classes0, bookingsInserted>>

\* GET /payments/:userEmail
GetPayments(cred, email, flag) ==
    LET mine == PaymentsOf(payments, email)
    IN  /\ request' = Req("getPayments", cred, NullId, email, flag)
        /\ response' =
             IF ~HandlerRuns("getPayments", cred) THEN Rejected
             ELSE IF SortStageFails(SortSpec(flag)) \/ JoinFails(mine) THEN Thrown
             ELSE Docs(SortStage(PaymentsWithClassInfo(mine, classes), SortSpec(flag)))
        /\ UNCHANGED <<users, classes, instructors, bookedClasses, payments,
                       intents, pendingIncs, issuedIncs, classes0, bookingsInserted>>

----------------------------------------------------------------------------
(* The server: every route, over a store holding the classes of            *)
(* StoredClassOids and one instructor.                                     *)

ClassDoc(oid, total, available) ==
    [_id |-> oid, status |-> ClassStatus(oid), totalSeats |-> total,
     availableSeats |-> available]

\* (totalSeats, availableSeats) of a class of the initial store.
SeatsInit == {<<0, 0>>, <<1, 1>>, <<2, 1>>}

Quiet ==
    /\ users = <<>>
    /\ bookedClasses = <<>>
    /\ payments = <<>>
    /\ intents = <<>>
    /\ pendingIncs = [o \in ClassOids |-> 0]
    /\ issuedIncs = [o \in ClassOids |-> 0]
    /\ bookingsInserted = 0
    /\ request = NoRequest
    /\ response = NoResponse

Init ==
    /\ \E seats \in [StoredClassOids -> SeatsInit] :
          classes = [i \in 1..Cardinality(StoredClassOids) |->
                        ClassDoc(i, seats[i][1], seats[i][2])]
    /\ classes0 = classes
    /\ instructors = <<[_id |-> 1, classIds |-> <<Hex(1), Hex(2)>>]>>
    /\ Quiet

Next ==
    \/ \E e \in ServerEmails : PostUser(e)
    \/ \E e \in ServerEmails : GetUser(e)
    \/ GetClasses
    \/ \E e \in ServerEmails : GetBookedClasses(e)
    \/ \E c \in Creds, id \in BookingIdParams : DeleteBookedClass(c, id)
    \/ GetPopularClasses
    \/ \E e \in ServerEmails, id \in ServerClassIdFields : PostBookedClass(e, id)
    \/ \E c \in Creds, id \in ClassIdParams : PutClass(c, id)
    \/ \E o \in ClassOids : StoreApplyInc(o)
    \/ GetInstructors
    \/ GetPopularInstructors
    \/ \E c \in Creds, p \in PriceInputs : CreatePaymentIntent(c, p)
    \/ \E c \in Creds, e \in ServerEmails, id \in ServerClassIdFields : PostPayment(c, e, id)
    \/ \E c \in Creds, e \in ServerEmails, f \in SortFlags : GetPayments(c, e, f)

Spec == Init /\ [][Next]_vars

----------------------------------------------------------------------------
(* The popular-classes view over a classes collection of up to MaxClasses  *)
(* documents.                                                              *)

InitPopular ==
    /\ \E n \in 0..MaxClasses : \E seats \in [1..n -> SeatChoices] :
          classes = [i \in 1..n |-> [_id |-> i, status |-> "approved",
                                     totalSeats |-> seats[i][1],
                                     availableSeats |-> seats[i][2]]]
    /\ classes0 = classes
    /\ instructors = <<>>
    /\ Quiet

NextPopular == GetPopularClasses

SpecPopular == InitPopular /\ [][NextPopular]_vars

----------------------------------------------------------------------------
(* The instructor views over an instructors collection of up to            *)
(* MaxInstructors documents.                                               *)

InitInstructors ==
    /\ \E seats \in [StoredClassOids -> SeatChoices] :
          classes = [i \in 1..Cardinality(StoredClassOids) |->
                        ClassDoc(i, seats[i][1], seats[i][2])]
    /\ classes0 = classes
    /\ \E n \in 0..MaxInstructors : \E ids \in [1..n -> ClassIdLists] :
          instructors = [i \in 1..n |-> [_id |-> i, classIds |-> ids[i]]]
    /\ Quiet

NextInstructors == GetInstructors \/ GetPopularInstructors

SpecInstructors == InitInstructors /\ [][NextInstructors]_vars

----------------------------------------------------------------------------
(* The joined lists: bookings and payments of several users, referring to  *)
(* stored, missing, absent and malformed class ids.                        *)

InitJoin ==
    /\ classes = [i \in 1..Cardinality(StoredClassOids) |-> ClassDoc(i, 2, 1)]
    /\ classes0 = classes
    /\ instructors = <<>>
    /\ Quiet

NextJoin ==
    \/ \E e \in Emails, id \in ClassIdFields : PostBookedClass(e, id)
    \/ \E e \in Emails : GetBookedClasses(e)
    \/ \E e \in Emails, id \in ClassIdFields : PostPayment("valid", e, id)
    \/ \E c \in {"expired", "valid"}, e \in Emails, f \in SortFlags : GetPayments(c, e, f)

SpecJoin == InitJoin /\ [][NextJoin]_vars

----------------------------------------------------------------------------
(* Properties *)

\* A step of the store applying an issued seat update; every other step is a
\* route handler answering a request.
StoreStep == pendingIncs' # pendingIncs /\ issuedIncs' = issuedIncs
HandlerStep(op) == ~StoreStep /\ request'.op = op

HasClass(oid) == \E i \in 1..Len(classes) : classes[i]._id = oid

\* C1: for every class, 0 <= availableSeats <= totalSeats in every state
\* reachable by the public operations from a state in which it holds.
C1_SeatsWithinBounds ==
    \A i \in 1..Len(classes) :
        /\ 0 <= classes[i].availableSeats
        /\ classes[i].availableSeats <= classes[i].totalSeats

\* C2: no seat update is lost: under every interleaving of the decrement
\* requests with the store's applications of them, each class's
\* availableSeats is its initial value minus the number of updates applied to
\* it (one per request), so once all N issued updates are applied it is
\* exactly N lower; the documents are otherwise as they were.
C2_NoLostUpdate ==
    /\ Len(classes) = Len(classes0)
    /\ \A i \in 1..Len(classes) :
          LET oid == classes0[i]._id
          IN  /\ classes[i]._id = oid
              /\ classes[i].totalSeats = classes0[i].totalSeats
              /\ classes[i].availableSeats =
                    classes0[i].availableSeats - (issuedIncs[oid] - pendingIncs[oid])
    /\ \A o \in ClassOids : 0 <= pendingIncs[o] /\ pendingIncs[o] <= issuedIncs[o]

\* C2 witness: two decrement requests on class 1 were issued and both have
\* been applied: the class has two seats fewer than at the start.
C2_Witness ==
    /\ issuedIncs[1] >= 2
    /\ pendingIncs[1] = 0
    /\ classes[1].availableSeats = classes0[1].availableSeats - 2

\* C3: the answer of GET /classes/popular holds at most 6 classes, each a
\* stored class with enrolledStudents = totalSeats - availableSeats, in
\* non-increasing order of enrolledStudents, and no class left out has more
\* enrolled students than one in the answer.
C3_PopularClasses ==
    request.op = "getPopularClasses" =>
        LET r == response.docs
            InResult(c) == \E k \in 1..Len(r) : r[k]._id = c._id
        IN  /\ response.status = "ok"
            /\ Len(r) <= PopularLimit
            /\ Len(r) = Min(PopularLimit, Len(classes))
            /\ \A k \in 1..Len(r) :
                  /\ \E i \in 1..Len(classes) :
                        /\ classes[i]._id = r[k]._id
                        /\ classes[i].totalSeats = r[k].totalSeats
                        /\ classes[i].availableSeats = r[k].availableSeats
                  /\ r[k].enrolledStudents = r[k].totalSeats - r[k].availableSeats
            /\ \A k, m \in 1..Len(r) : k # m => r[k]._id # r[m]._id
            /\ \A k \in 1..(Len(r) - 1) :
                  r[k].enrolledStudents >= r[k + 1].enrolledStudents
            /\ \A i \in 1..Len(classes) :
                  ~InResult(classes[i]) =>
                      \A k \in 1..Len(r) :
                          classes[i].totalSeats - classes[i].availableSeats
                              <= r[k].enrolledStudents

\* C3 witness: more than 6 classes are stored, the answer holds 6, their
\* enrolment differs, and the first stored class is left out.
C3_Witness ==
    /\ request.op = "getPopularClasses"
    /\ Len(classes) > PopularLimit
    /\ Len(response.docs) = PopularLimit
    /\ response.docs[1].enrolledStudents > response.docs[PopularLimit].enrolledStudents
    /\ \A k \in 1..Len(response.docs) : response.docs[k]._id # classes[1]._id

\* C4: the answer of GET /instructors/popular ranks every instructor, one
\* without classes included (totalStudents 0, no class ids): each instructor
\* is in the answer with totalStudents the sum of totalSeats - availableSeats
\* over the instructor's classes, unless the 6 in the answer all have at
\* least as many; the answer is in non-increasing order of totalStudents.
ExpectedTotalStudents(inst) ==
    SumSeq([k \in 1..Len(inst.classIds) |->
               StudentsOf(LookupClasses(classes, inst.classIds[k]))])

C4_PopularInstructors ==
    (request.op = "getPopularInstructors" /\ response.status = "ok") =>
        LET r == response.docs
        IN  /\ Len(r) = Min(PopularLimit, Len(instructors))
            /\ \A k \in 1..(Len(r) - 1) : r[k].totalStudents >= r[k + 1].totalStudents
            /\ \A i \in 1..Len(instructors) :
                  \/ \E k \in 1..Len(r) :
                        /\ r[k]._id = instructors[i]._id
                        /\ r[k].totalStudents = ExpectedTotalStudents(instructors[i])
                        /\ r[k].classIds = instructors[i].classIds
                  \/ /\ Len(r) = PopularLimit
                     /\ \A k \in 1..Len(r) :
                           r[k].totalStudents >= ExpectedTotalStudents(instructors[i])

\* The classes a record refers to: the stored classes whose id the record's
\* classId spells, none when it spells no stored class's id.
ExpectedClassInfo(classId) ==
    LET Spelt(c) == Hex(c._id) = classId
    IN  SelectSeq(classes, Spelt)

\* C5: GET /bookedClasses/:studentEmail and GET /payments/:userEmail (with a
\* valid credential) succeed and return exactly the records of that email,
\* each with classInfo holding exactly the class whose id equals its classId,
\* and an empty classInfo when no stored class has that id.
C5_JoinedLists ==
    /\ request.op = "getBookedClasses" =>
          LET mine == BookedOf(bookedClasses, request.email)
          IN  /\ response.status = "ok"
              /\ Len(response.docs) = Len(mine)
              /\ \A k \in 1..Len(mine) :
                    \E m \in 1..Len(response.docs) :
                        /\ response.docs[m]._id = mine[k]._id
                        /\ response.docs[m].studentEmail = request.email
                        /\ response.docs[m].classId = mine[k].classId
                        /\ response.docs[m].classInfo = ExpectedClassInfo(mine[k].classId)
    /\ (request.op = "getPayments" /\ verifyJWT(request.cred)) =>
          LET mine == PaymentsOf(payments, request.email)
          IN  /\ response.status = "ok"
              /\ Len(response.docs) = Len(mine)
              /\ \A k \in 1..Len(mine) :
                    \E m \in 1..Len(response.docs) :
                        /\ response.docs[m]._id = mine[k]._id
                        /\ response.docs[m].userEmail = request.email
                        /\ response.docs[m].classId = mine[k].classId
                        /\ response.docs[m].classInfo = ExpectedClassInfo(mine[k].classId)

\* C6: GET /payments/:userEmail with a valid credential succeeds with and
\* without the sort flag and returns the user's payments, in ascending _id
\* order without the flag and in descending _id order with sort=true.
C6_PaymentsOrder ==
    (request.op = "getPayments" /\ verifyJWT(request.cred)) =>
        LET r == response.docs
            mine == PaymentsOf(payments, request.email)
        IN  /\ response.status = "ok"
            /\ {r[k]._id : k \in 1..Len(r)} = {mine[k]._id : k \in 1..Len(mine)}
            /\ Len(r) = Len(mine)
            /\ \A k \in 1..(Len(r) - 1) :
                  IF request.flag = "true"
                  THEN r[k]._id > r[k + 1]._id
                  ELSE r[k]._id < r[k + 1]._id

\* C7 as claimed: a DELETE /bookedClasses/:id with a valid credential answers
\* "not found" and leaves the collection as it is when no booking with that
\* id is stored, and removes exactly that booking when one is.
StoredBooking(id) == \E i \in 1..Len(bookedClasses) : Hex(bookedClasses[i]._id) = id

WithoutBooking(id) ==
    LET Other(d) == Hex(d._id) # id
    IN  SelectSeq(bookedClasses, Other)

C7_DeleteOutcomeAsClaimed ==
    [][(HandlerStep("deleteBookedClass") /\ verifyJWT(request'.cred)) =>
          IF StoredBooking(request'.id)
          THEN /\ bookedClasses' = WithoutBooking(request'.id)
               /\ Len(bookedClasses') = Len(bookedClasses) - 1
               /\ response'.body = "deleteResult"
          ELSE /\ response'.body = "errorNotFound"
               /\ bookedClasses' = bookedClasses]_vars

\* C7 amended: the same for an id that is a well-formed ObjectId string; for
\* an id that is not, the handler throws before it reaches the store: no
\* result, "not found" included, is sent and the collection is unchanged.
C7_DeleteOutcome ==
    [][(HandlerStep("deleteBookedClass") /\ verifyJWT(request'.cred)) =>
          IF ~ObjectIdValid(request'.id)
          THEN /\ response'.status = "error"
               /\ response'.body = "none"
               /\ bookedClasses' = bookedClasses
          ELSE IF StoredBooking(request'.id)
          THEN /\ bookedClasses' = WithoutBooking(request'.id)
               /\ Len(bookedClasses') = Len(bookedClasses) - 1
               /\ response'.status = "ok"
               /\ response'.body = "deleteResult"
          ELSE /\ response'.status = "ok"
               /\ response'.body = "errorNotFound"
               /\ bookedClasses' = bookedClasses]_vars

\* C7 witness: a delete of a well-formed id that no stored booking has was
\* answered "not found" while another booking is stored.
C7_Witness ==
    /\ request.op = "deleteBookedClass"
    /\ request.cred = "valid"
    /\ ObjectIdValid(request.id)
    /\ response.body = "errorNotFound"
    /\ bookedClasses # <<>>

\* C8: a request to an auth-required operation whose credential is missing,
\* invalid or expired is answered Unauthorized and changes no collection,
\* creates no payment intent and issues no seat update.
AuthRequiredOps ==
    {"createPaymentIntent", "postPayment", "getPayments", "deleteBookedClass",
     "putClass"}

C8_RejectedBeforeHandler ==
    [][\A op \in AuthRequiredOps :
          (HandlerStep(op) /\ request'.cred # "valid") =>
              /\ response' = Rejected
              /\ UNCHANGED <<users, classes, instructors, bookedClasses, payments,
                             intents, pendingIncs, issuedIncs>>]_vars

\* C8 witness: a decrement-seat request with an expired credential was
\* refused while a booking is stored.
C8_Witness ==
    /\ request.op = "putClass"
    /\ request.cred = "expired"
    /\ ObjectIdValid(request.id) /\ HasClass(ObjectId(request.id))
    /\ response.status = "Unauthorized"
    /\ bookedClasses # <<>>

\* C9: the answer to a decrement-seat request (valid credential, well-formed
\* id) on an id no stored class has carries the store's "no rows matched"
\* outcome of that update.
C9_MissReportsNoMatch ==
    (/\ request.op = "putClass"
     /\ verifyJWT(request.cred)
     /\ ObjectIdValid(request.id)
     /\ ~HasClass(ObjectId(request.id))) =>
        /\ response.body = "updateResult"
        /\ response.count = 0

\* C10: no step raises a class's availableSeats or changes its totalSeats or
\* the set of classes, and the only steps that change the classes collection
\* are the store's applications of seat updates issued by decrement-seat:
\* create-booking, delete-booking, record-payment and the read views leave it
\* as it is.
C10_SeatsNeverIncrease ==
    [][/\ Len(classes') = Len(classes)
       /\ \A i \in 1..Len(classes) :
             /\ classes'[i]._id = classes[i]._id
             /\ classes'[i].totalSeats = classes[i].totalSeats
             /\ classes'[i].availableSeats <= classes[i].availableSeats
       /\ classes' # classes => StoreStep
       /\ \A op \in {"postBookedClass", "deleteBookedClass", "postPayment",
                     "getBookedClasses", "getPayments", "getPopularClasses",
                     "getPopularInstructors", "getInstructors", "getClasses"} :
             HandlerStep(op) => classes' = classes]_vars

\* C10 witness: a booking was deleted after a seat of a class was taken, and
\* the class still has fewer seats than at the start.
C10_Witness ==
    /\ request.op = "deleteBookedClass"
    /\ response.body = "deleteResult"
    /\ \E i \in 1..Len(classes) :
          classes[i].availableSeats < classes0[i].availableSeats

====
